---- MODULE Spec2Model ----
(***************************************************************************)
(* gsinks.c: for every digraph read from the input file, tarjan()          *)
(* partitions it into strongly connected components and marks the leaf     *)
(* components; colourdigraph() then enumerates the 2-colourings that are   *)
(* maximal in their orbit and hands each of them to filter_and_output(),   *)
(* which counts those colouring at least one vertex of every leaf SCC.     *)
(*                                                                         *)
(* Sets of vertices (setword / set / graph rows, m = 1) are modelled as    *)
(* sets of integers; the static C arrays as functions on 0..MaxN-1.         *)
(* The explicit stack[] / stack_top pair is modelled as a sequence.        *)
(* nauty (group of the coloured digraph, orbits, allgroup2) is an          *)
(* external library: it is modelled by what it returns, and the order in   *)
(* which allgroup2 enumerates the group is left open.  The statics first    *)
(* and newgroupsize are not kept: first only makes testmax skip the        *)
(* identity, newgroupsize is written and never read.  Digraphs have at     *)
(* least one vertex.                                                       *)
(***************************************************************************)
EXTENDS Integers, Sequences, FiniteSets, TLC

\* Largest number of vertices of an input digraph (capacity of the arrays).
MaxN == 4
\* Largest number of vertices of an input digraph with loops (run with -l).
MaxLoopN == 3
\* Largest number of vertices of the digraphs of a run that reads several.
MaxSeqN == 3
\* Number of digraphs read in a run that reads several.
MaxGraphs == 2
\* Number of input files opened in one run.
MaxFiles == 2

UNDEFINED == -1
\* Arguments of the call colourdigraph(g,0,0,NOLIMIT,2,m,n) in main.
nfixed == 0
minedges == 0
numcols == 2

Idx == 0 .. (MaxN - 1)
V(n) == 0 .. (n - 1)
Graphs(n) == [V(n) -> SUBSET V(n)]

Min(S) == CHOOSE x \in S : \A y \in S : x <= y
Max(S) == CHOOSE x \in S : \A y \in S : x >= y

\* nextelement(set,m,pos): the least element above pos, or -1.
nextelement(s, pos) ==
    IF {x \in s : x > pos} = {} THEN UNDEFINED ELSE Min({x \in s : x > pos})

(***************************************************************************)
(* The SCC decomposer.  A record t holds the globals tarjan works on.      *)
(***************************************************************************)
InitVinfo == [index |-> 0, lowlink |-> 0, onstack |-> FALSE, descendents |-> {}]
InitSccinfo == [sccVertices |-> {}, isLeaf |-> FALSE, sccSize |-> 0]

\* The do-while loop popping one component off the stack.
RECURSIVE PopLoop(_, _, _, _)
PopLoop(t, v, descendents, sccSize) ==
    LET w == t.stack[Len(t.stack)]
        t1 == [t EXCEPT !.stack = SubSeq(@, 1, Len(@) - 1),
                        !.vinfos[w].onstack = FALSE,
                        !.sccinfos[t.currentSCC].sccVertices = @ \cup {w}]
        d1 == (descendents \cup {w}) \cup t.vinfos[w].descendents
    IN  IF w # v THEN PopLoop(t1, v, d1, sccSize + 1)
        ELSE [t |-> t1, descendents |-> d1, sccSize |-> sccSize + 1]

\* Mutant: the component's own vertices are not taken out of the descendents.
LeafTestBad(isFirstSCC, descendents, sccVertices) ==
    IF isFirstSCC THEN TRUE
    ELSE descendents = {}

\* The leaf test of a component just popped.
LeafTest(isFirstSCC, descendents, sccVertices) ==
    IF isFirstSCC THEN TRUE
    ELSE (descendents \ sccVertices) = {}

\* The body of  if (lowlink == index) { ... }.
CloseSCC(t, v) ==
    LET r == PopLoop(t, v, {}, 0)
        t1 == [r.t EXCEPT !.sccinfos[t.currentSCC].sccSize = r.sccSize]
        leaf == LeafTest(t1.isFirstSCC, r.descendents,
                         t1.sccinfos[t1.currentSCC].sccVertices)
        t2 == [t1 EXCEPT !.sccinfos[t1.currentSCC].isLeaf = (@ \/ leaf),
                         !.isFirstSCC = IF t1.isFirstSCC THEN FALSE ELSE @]
    IN  [t2 EXCEPT !.currentSCC = @ + 1]

\* Mutant: the lowlink of the child is not taken over.
LowlinkTreeBad(lowv, loww) == lowv

\* Mutant: an edge back to a vertex on the stack is ignored.
LowlinkOnStackBad(lowv, indexw) == lowv

\* lowlink of v after the recursive call on w has returned.
LowlinkTree(lowv, loww) == IF lowv > loww THEN loww ELSE lowv

\* lowlink of v when w has an index and is on the stack.
LowlinkOnStack(lowv, indexw) == IF lowv > indexw THEN indexw ELSE lowv

RECURSIVE strongconnect(_, _, _), EdgeLoop(_, _, _, _)
\* The for loop over the out-neighbours w of v, from w on.
EdgeLoop(t, g, v, w) ==
    IF w > UNDEFINED
    THEN LET ta == [t EXCEPT !.vinfos[v].descendents = @ \cup {w}]
             tb == IF ta.vinfos[w].index = UNDEFINED
                   THEN LET tc == strongconnect(ta, g, w)
                        IN  [tc EXCEPT !.vinfos[v].lowlink =
                                 LowlinkTree(tc.vinfos[v].lowlink, tc.vinfos[w].lowlink)]
                   ELSE IF ta.vinfos[w].onstack
                        THEN [ta EXCEPT !.vinfos[v].lowlink =
                                  LowlinkOnStack(ta.vinfos[v].lowlink, ta.vinfos[w].index)]
                        ELSE ta
         IN  EdgeLoop(tb, g, v, nextelement(g[v], w))
    ELSE t

strongconnect(t, g, v) ==
    LET t1 == [t EXCEPT !.vinfos[v].index = t.vertex_index,
                        !.vinfos[v].lowlink = t.vertex_index,
                        !.vertex_index = @ + 1,
                        !.stack = Append(@, v),
                        !.vinfos[v].onstack = TRUE]
        t2 == EdgeLoop(t1, g, v, nextelement(g[v], UNDEFINED))
    IN  IF t2.vinfos[v].lowlink = t2.vinfos[v].index THEN CloseSCC(t2, v) ELSE t2

\* Mutant: the descendents of the vertices are not emptied.
TarjanResetBad(t, n) ==
    [t EXCEPT !.stack = << >>,
              !.currentSCC = 0,
              !.isFirstSCC = TRUE,
              !.vinfos = [i \in Idx |->
                  IF i < n THEN [index |-> UNDEFINED, lowlink |-> UNDEFINED,
                                 onstack |-> FALSE, descendents |-> @[i].descendents]
                  ELSE @[i]],
              !.sccinfos = [i \in Idx |->
                  IF i < n THEN [sccVertices |-> {}, isLeaf |-> FALSE, sccSize |-> 0]
                  ELSE @[i]]]

\* The initialisation at the head of tarjan.
TarjanReset(t, n) ==
    [t EXCEPT !.stack = << >>,
              !.currentSCC = 0,
              !.isFirstSCC = TRUE,
              !.vinfos = [i \in Idx |->
                  IF i < n THEN [index |-> UNDEFINED, lowlink |-> UNDEFINED,
                                 onstack |-> FALSE, descendents |-> {}]
                  ELSE @[i]],
              !.sccinfos = [i \in Idx |->
                  IF i < n THEN [sccVertices |-> {}, isLeaf |-> FALSE, sccSize |-> 0]
                  ELSE @[i]]]

RECURSIVE VertexLoop(_, _, _, _)
VertexLoop(t, g, n, v) ==
    IF v < n
    THEN VertexLoop(IF t.vinfos[v].index = UNDEFINED THEN strongconnect(t, g, v) ELSE t,
                    g, n, v + 1)
    ELSE t

tarjan(t, g, n) == VertexLoop(TarjanReset(t, n), g, n, 0)

(***************************************************************************)
(* colourdigraph: the part before the search.                              *)
(***************************************************************************)
\* loop[i], set while the self-loops are removed from g.
loop(gg, nn) == [i \in V(nn) |-> i \in gg[i]]

\* g after the loop deleting every self-loop.
StripLoops(gg, nn) == [i \in V(nn) |-> gg[i] \ {i}]

\* Mutant: the self-loops are not put back.
RestoreLoopsBad(gs, lp, nn) == gs

\* g after  if (nloops > 0) ... ADDELEMENT(gi,i).
RestoreLoops(gs, lp, nn) ==
    IF Cardinality({i \in V(nn) : lp[i]}) > 0
    THEN [i \in V(nn) |-> IF lp[i] THEN gs[i] \cup {i} ELSE gs[i]]
    ELSE gs

\* nauty's converse(): the digraph with every edge reversed.
converse(gs, nn) == [i \in V(nn) |-> {j \in V(nn) : i \in gs[j]}]

FLIPELEMENT(s, x) == IF x \in s THEN s \ {x} ELSE s \cup {x}

\* Mutant: the loop flags of i and j are not compared.
EquivalentNoLoop(gs, gconv, lp, i, j) ==
    /\ ~((j \in gs[i]) # (i \in gs[j]))
    /\ \/ (gs[i] = gs[j] /\ gconv[i] = gconv[j])
       \/ /\ FLIPELEMENT(gs[i], i) = FLIPELEMENT(gs[j], j)
          /\ FLIPELEMENT(gconv[i], i) = FLIPELEMENT(gconv[j], j)

\* Whether the inner loop stops at j: j is equivalent to i
\* (same loop flag, same rows of g and gconv, as they are or with i and j flipped).
Equivalent(gs, gconv, lp, i, j) ==
    /\ ~(lp[j] # lp[i] \/ ((j \in gs[i]) # (i \in gs[j])))
    /\ \/ (gs[i] = gs[j] /\ gconv[i] = gconv[j])
       \/ /\ FLIPELEMENT(gs[i], i) = FLIPELEMENT(gs[j], j)
          /\ FLIPELEMENT(gconv[i], i) = FLIPELEMENT(gconv[j], j)

\* The most recent j in start..i-1 equivalent to i, or -1.
MostRecent(gs, gconv, lp, start, i) ==
    LET js == {j \in start .. (i - 1) : Equivalent(gs, gconv, lp, i, j)}
    IN  IF js = {} THEN -1 ELSE Max(js)

\* prev[] as the region loop leaves it (nfixed = 0: the one region 0..n-1).
TwinPrev(gs, lp, nn) ==
    LET gconv == converse(gs, nn)
    IN  [i \in V(nn) |-> MostRecent(gs, gconv, lp, nfixed, i)]

RECURSIVE WeightOf(_, _)
WeightOf(pv, i) == IF pv[i] >= 0 THEN WeightOf(pv, pv[i]) + 1 ELSE 0

\* weight[] after  weight[i] += nfixed.
Weight(pv, nn) == [i \in V(nn) |-> WeightOf(pv, i) + nfixed]

\* The permutations of 0..nn-1, for every nn up to the capacity.
PermTable ==
    [nn \in 0 .. MaxN |-> {p \in [V(nn) -> V(nn)] : \A i, j \in V(nn) : i # j => p[i] # p[j]}]

Perms(nn) == PermTable[nn]

IsAutomorphism(gg, nn, p) ==
    \A u, v \in V(nn) : (v \in gg[u]) <=> (p[v] \in gg[p[u]])

\* The group nauty returns for g with the partition setlabptn makes of weight
\* (defaultptn = FALSE): the automorphisms of g that keep every weight.
NautyGroup(gg, weight, nn) ==
    {p \in Perms(nn) : IsAutomorphism(gg, nn, p) /\ \A v \in V(nn) : weight[p[v]] = weight[v]}

\* orbits[i]: the least vertex of the orbit of i.
Orbits(grp, nn) == [i \in V(nn) |-> Min({p[i] : p \in grp})]

\* prev[] after the block  if (stats.numorbits < n) { ... }.
OrbitPrev(pv, orbits, nn) ==
    IF Cardinality({orbits[i] : i \in V(nn)}) < nn
    THEN LET j == Min({nn} \cup {orbits[i] : i \in {x \in V(nn) : orbits[x] < x}})
         IN  [i \in V(nn) |-> IF i > j /\ orbits[i] = j THEN j ELSE pv[i]]
    ELSE pv

\* What colourdigraph has computed when it calls scan(0,...).
ColourSetup(gg, nn) ==
    LET lp == loop(gg, nn)
        gs == StripLoops(gg, nn)
        pv == TwinPrev(gs, lp, nn)
        weight == Weight(pv, nn)
        g2 == RestoreLoops(gs, lp, nn)
        grp == NautyGroup(g2, weight, nn)
    IN  [g |-> g2, group |-> grp, groupsize |-> Cardinality(grp),
         prev |-> OrbitPrev(pv, Orbits(grp, nn), nn),
         maxedges |-> nn * numcols]

(***************************************************************************)
(* The canonicity test.                                                    *)
(***************************************************************************)
\* Mutant: fail is the last k, not the greatest.
RECURSIVE ismaxFromBad(_, _, _, _, _)
ismaxFromBad(p, c, nn, i, fail) ==
    IF i >= nn THEN [ret |-> TRUE, fail |-> UNDEFINED]
    ELSE LET k == p[i]
         IN  IF c[k] > c[i] THEN [ret |-> FALSE, fail |-> k]
             ELSE IF c[k] < c[i] THEN [ret |-> TRUE, fail |-> UNDEFINED]
             ELSE ismaxFromBad(p, c, nn, i + 1, k)

\* ismax from position i on, with the running maximum fail.
RECURSIVE ismaxFrom(_, _, _, _, _)
ismaxFrom(p, c, nn, i, fail) ==
    IF i >= nn THEN [ret |-> TRUE, fail |-> UNDEFINED]
    ELSE LET k == p[i]
             f == IF k > fail THEN k ELSE fail
         IN  IF c[k] > c[i] THEN [ret |-> FALSE, fail |-> f]
             ELSE IF c[k] < c[i] THEN [ret |-> TRUE, fail |-> UNDEFINED]
             ELSE ismaxFrom(p, c, nn, i + 1, f)

\* ismax(p,n): ret is the value returned; fail is the value stored in
\* fail_level when ret is FALSE.
ismax(p, c, nn) == ismaxFrom(p, c, nn, 0, 0)

Identity(nn) == [i \in V(nn) |-> i]

\* allgroup2(group,testmax): the first call (the identity) is skipped by
\* testmax; the elements that make testmax abort.  Which of them is met first
\* depends on nauty's enumeration order.
Aborting(grp, c, nn) == {p \in grp \ {Identity(nn)} : ~ismax(p, c, nn).ret}

\* lastreject[] after testmax copies p into it.
StoreReject(lr, p, nn) == [i \in Idx |-> IF i < nn THEN p[i] ELSE lr[i]]

\* Mutant: the third branch accepts whatever the order of the group.
trythisoneBad(grp, gsz, c, nn, lr, lrok, fl) ==
    IF gsz = 1
    THEN {[accept |-> TRUE, lastreject |-> lr, lastrejok |-> lrok, fail_level |-> fl]}
    ELSE IF lrok /\ ~ismax(lr, c, nn).ret
    THEN {[accept |-> FALSE, lastreject |-> lr, lastrejok |-> lrok,
           fail_level |-> ismax(lr, c, nn).fail]}
    ELSE IF lrok
    THEN {[accept |-> TRUE, lastreject |-> lr, lastrejok |-> lrok, fail_level |-> fl]}
    ELSE IF Aborting(grp, c, nn) = {}
    THEN {[accept |-> TRUE, lastreject |-> lr, lastrejok |-> lrok, fail_level |-> fl]}
    ELSE {[accept |-> FALSE, lastreject |-> StoreReject(lr, p, nn), lastrejok |-> TRUE,
           fail_level |-> ismax(p, c, nn).fail] : p \in Aborting(grp, c, nn)}

\* The outcomes of the if-chain of trythisone.
trythisone(grp, gsz, c, nn, lr, lrok, fl) ==
    IF gsz = 1
    THEN {[accept |-> TRUE, lastreject |-> lr, lastrejok |-> lrok, fail_level |-> fl]}
    ELSE IF lrok /\ ~ismax(lr, c, nn).ret
    THEN {[accept |-> FALSE, lastreject |-> lr, lastrejok |-> lrok,
           fail_level |-> ismax(lr, c, nn).fail]}
    ELSE IF lrok /\ gsz = 2
    THEN {[accept |-> TRUE, lastreject |-> lr, lastrejok |-> lrok, fail_level |-> fl]}
    ELSE IF Aborting(grp, c, nn) = {}
    THEN {[accept |-> TRUE, lastreject |-> lr, lastrejok |-> lrok, fail_level |-> fl]}
    ELSE {[accept |-> FALSE, lastreject |-> StoreReject(lr, p, nn), lastrejok |-> TRUE,
           fail_level |-> ismax(p, c, nn).fail] : p \in Aborting(grp, c, nn)}

\* The value trythisone returns.
TryReturn(accept, fl, nn) == IF accept THEN nn - 1 ELSE fl - 1

(***************************************************************************)
(* filter_and_output.                                                      *)
(***************************************************************************)
\* The do-while over the vertices of one component.
RECURSIVE LeafColoured(_, _, _)
LeafColoured(sccVertices, c, j) ==
    IF c[j] # 0 THEN TRUE
    ELSE LET j1 == nextelement(sccVertices, j)
         IN  IF j1 # UNDEFINED THEN LeafColoured(sccVertices, c, j1) ELSE FALSE

\* Mutant: the loop over the components stops one short.
PassesBad(sccs, nscc, c) ==
    \A i \in 0 .. (nscc - 2) :
        sccs[i].isLeaf => LeafColoured(sccs[i].sccVertices, c,
                                       nextelement(sccs[i].sccVertices, UNDEFINED))

\* Whether filter_and_output gets past its first loop.
Passes(sccs, nscc, c) ==
    \A i \in 0 .. (nscc - 1) :
        sccs[i].isLeaf => LeafColoured(sccs[i].sccVertices, c,
                                       nextelement(sccs[i].sccVertices, UNDEFINED))

\* gnew as handed to writed6: n+1 rows, the rows of g with n added where col is set.
BuildExtension(gg, c, nn) ==
    [j \in 0 .. nn |-> IF j < nn THEN (IF c[j] # 0 THEN gg[j] \cup {nn} ELSE gg[j]) ELSE {}]

(***************************************************************************)
(* scan: the bounds of the loop at one level.                              *)
(***************************************************************************)
RECURSIVE SumCol(_, _)
SumCol(c, level) == IF level = 0 THEN 0 ELSE SumCol(c, level - 1) + c[level - 1]

ScanMin(nn, level, sofar) ==
    LET left == nn - level - 1
        min == minedges - sofar - numcols * left
    IN  IF min < 0 THEN 0 ELSE min

ScanMax(nn, level, sofar, maxedges, pv, c) ==
    LET m0 == maxedges - sofar
        m1 == IF m0 >= numcols THEN numcols - 1 ELSE m0
    IN  IF pv[level] >= 0 /\ c[pv[level]] < m1 THEN c[pv[level]] ELSE m1

(***************************************************************************)
(* The program state.                                                      *)
(*   pc       "main": at the head of the while loop reading digraphs;      *)
(*            "scan": entering scan(level,...);                            *)
(*            "ret" : the call made by the frame at `level` has returned   *)
(*                    `ret`;   "exit": after the loop over the files.      *)
(*   frames   the local variables k and max of the active calls of scan.   *)
(* Observers (no counterpart in the program, reset when a digraph is       *)
(* read): gread, the digraph as read; handed, the colourings given to      *)
(* filter_and_output; counted, those that incremented totalCount;          *)
(* emitted, the colourings written with their extended digraph; before,    *)
(* totalCount when the digraph was read; nInFile, the digraphs read from   *)
(* the current file; nread, nfiles, the digraphs read and files finished.  *)
(* The input: `files` files hold ngraphs digraphs of at most maxn vertices. *)
(***************************************************************************)
VARIABLES pc, g, n, vinfos, sccinfos, currentSCC, isFirstSCC, vertex_index, stack,
          col, lastreject, lastrejok, fail_level, groupsize, group, prev, maxedges,
          level, frames, ret, totalCount, dswitch, lswitch, maxn, ngraphs, files,
          gread, handed, counted, emitted, before, nInFile, nread, nfiles

vars == <<pc, g, n, vinfos, sccinfos, currentSCC, isFirstSCC, vertex_index, stack,
          col, lastreject, lastrejok, fail_level, groupsize, group, prev, maxedges,
          level, frames, ret, totalCount, dswitch, lswitch, maxn, ngraphs, files,
          gread, handed, counted, emitted, before, nInFile, nread, nfiles>>

tarjanVars == <<vinfos, sccinfos, currentSCC, isFirstSCC, vertex_index, stack>>
graphVars == <<g, n, groupsize, group, prev, maxedges, gread>>
rejectVars == <<lastreject, lastrejok, fail_level>>
outputVars == <<totalCount, handed, counted, emitted>>
driverVars == <<dswitch, lswitch, maxn, ngraphs, files, before, nInFile, nread, nfiles>>

TarjanState ==
    [vinfos |-> vinfos, sccinfos |-> sccinfos, currentSCC |-> currentSCC,
     isFirstSCC |-> isFirstSCC, vertex_index |-> vertex_index, stack |-> stack]

\* The statics as the loader zeroes them.
Statics ==
    /\ pc = "main"
    /\ n = 0
    /\ g = << >>
    /\ vinfos = [i \in Idx |-> InitVinfo]
    /\ sccinfos = [i \in Idx |-> InitSccinfo]
    /\ currentSCC = 0
    /\ isFirstSCC = FALSE
    /\ vertex_index = 0
    /\ stack = << >>
    /\ col = [i \in Idx |-> 0]
    /\ lastreject = [i \in Idx |-> 0]
    /\ lastrejok = FALSE
    /\ fail_level = 0
    /\ groupsize = 0
    /\ group = {}
    /\ prev = << >>
    /\ maxedges = 0
    /\ level = 0
    /\ frames = << >>
    /\ ret = 0
    /\ totalCount = 0
    /\ gread = << >>
    /\ handed = {}
    /\ counted = {}
    /\ emitted = {}
    /\ before = 0
    /\ nInFile = 0
    /\ nread = 0
    /\ nfiles = 0

\* A run over one file holding one digraph: with -l, a digraph with loops, with or without -d;
\* without -l, a loop-free digraph, without -d.
Init ==
    /\ Statics
    /\ ngraphs = 1
    /\ files = 1
    /\ \/ lswitch = TRUE /\ maxn = MaxLoopN /\ dswitch \in BOOLEAN
       \/ lswitch = FALSE /\ maxn = MaxN /\ dswitch = FALSE

\* A run over MaxFiles files holding MaxGraphs loop-free digraphs, with or without -d.
InitSeq ==
    /\ Statics
    /\ ngraphs = MaxGraphs
    /\ files = MaxFiles
    /\ lswitch = FALSE
    /\ maxn = MaxSeqN
    /\ dswitch \in BOOLEAN

\* The colouring col[0..n-1].
Colouring(c, nn) == [i \in V(nn) |-> c[i]]

\* col[] after  for (i = 0; i < n; ++i) col[i] = 0.
ClearCol(c, nn) == [i \in Idx |-> IF i < nn THEN 0 ELSE c[i]]

\* The digraphs on nn vertices an input file may hold: dig<n>.d6 holds digraphs
\* without loops, digl<n>.d6 (opened with -l) digraphs with or without loops.
InputGraphs(nn) ==
    IF lswitch THEN Graphs(nn) ELSE {gg \in Graphs(nn) : \A i \in V(nn) : i \notin gg[i]}

\* One turn of the while loop of main up to the call scan(0,...):
\* readgg_inc returns a digraph, tarjan, and colourdigraph down to its last line.
ReadGraph ==
    /\ pc = "main"
    /\ nread < ngraphs
    /\ \E nn \in 1 .. maxn : \E gg \in InputGraphs(nn) :
         LET t == tarjan(TarjanState, gg, nn)
             cs == ColourSetup(gg, nn)
         IN  /\ n' = nn
             /\ g' = cs.g
             /\ gread' = gg
             /\ vinfos' = t.vinfos
             /\ sccinfos' = t.sccinfos
             /\ currentSCC' = t.currentSCC
             /\ isFirstSCC' = t.isFirstSCC
             /\ vertex_index' = t.vertex_index
             /\ stack' = t.stack
             /\ groupsize' = cs.groupsize
             /\ group' = cs.group
             /\ prev' = cs.prev
             /\ maxedges' = cs.maxedges
             /\ col' = ClearCol(col, nn)
    /\ lastrejok' = FALSE
    /\ level' = 0
    /\ frames' = << >>
    /\ pc' = "scan"
    /\ handed' = {}
    /\ counted' = {}
    /\ emitted' = {}
    /\ before' = totalCount
    /\ nInFile' = nInFile + 1
    /\ nread' = nread + 1
    /\ UNCHANGED <<lastreject, fail_level, ret, totalCount, dswitch, lswitch, maxn, ngraphs, files, nfiles>>

\* scan(level,...) with level < n: the bounds, then the first turn of the loop.
ScanEnter ==
    /\ pc = "scan"
    /\ level < n
    /\ LET sofar == SumCol(col, level)
           min == ScanMin(n, level, sofar)
           max == ScanMax(n, level, sofar, maxedges, prev, col)
       IN  IF min <= max
           THEN /\ col' = [col EXCEPT ![level] = min]
                /\ frames' = Append(frames, [k |-> min, max |-> max])
                /\ level' = level + 1
                /\ pc' = "scan"
                /\ ret' = ret
           ELSE /\ ret' = level - 1
                /\ level' = level - 1
                /\ pc' = IF level = 0 THEN "main" ELSE "ret"
                /\ UNCHANGED <<col, frames>>
    /\ UNCHANGED <<tarjanVars, graphVars, rejectVars, outputVars, driverVars>>

\* totalCount after filter_and_output(g,col,m,n).
CountAfter(total, sccs, nscc, c) == IF Passes(sccs, nscc, c) THEN total + 1 ELSE total

\* scan(n,...): trythisone, and filter_and_output when the colouring is accepted.
TryThisOne ==
    /\ pc = "scan"
    /\ level = n
    /\ \E o \in trythisone(group, groupsize, col, n, lastreject, lastrejok, fail_level) :
         /\ lastreject' = o.lastreject
         /\ lastrejok' = o.lastrejok
         /\ fail_level' = o.fail_level
         /\ ret' = TryReturn(o.accept, o.fail_level, n)
         /\ IF o.accept
            THEN /\ handed' = handed \cup {Colouring(col, n)}
                 /\ totalCount' = CountAfter(totalCount, sccinfos, currentSCC, col)
                 /\ IF Passes(sccinfos, currentSCC, col)
                    THEN /\ counted' = counted \cup {Colouring(col, n)}
                         /\ emitted' = IF dswitch
                                       THEN emitted \cup {[col |-> Colouring(col, n),
                                                           gnew |-> BuildExtension(g, col, n)]}
                                       ELSE emitted
                    ELSE UNCHANGED <<counted, emitted>>
            ELSE UNCHANGED outputVars
    /\ level' = n - 1
    /\ pc' = "ret"
    /\ UNCHANGED <<tarjanVars, graphVars, driverVars, col, frames>>

\* Whether the loop of the frame at `level` goes on to its next turn.
LoopGoesOn == ret >= level /\ frames[level + 1].k + 1 <= frames[level + 1].max

\* The next turn of the loop: ++k, col[level] = k, scan(level+1,...).
ScanNext ==
    /\ pc = "ret"
    /\ LoopGoesOn
    /\ col' = [col EXCEPT ![level] = frames[level + 1].k + 1]
    /\ frames' = [frames EXCEPT ![level + 1].k = @ + 1]
    /\ level' = level + 1
    /\ pc' = "scan"
    /\ UNCHANGED <<tarjanVars, graphVars, rejectVars, outputVars, driverVars, ret>>

\* The value the frame at `level` returns: ret if (ret < level), else level-1.
ScanValue(r, lv) == IF r < lv THEN r ELSE lv - 1

\* The frame returns; from level 0 the return is to colourdigraph and main.
ScanReturn ==
    /\ pc = "ret"
    /\ ~LoopGoesOn
    /\ ret' = ScanValue(ret, level)
    /\ frames' = SubSeq(frames, 1, level)
    /\ level' = level - 1
    /\ pc' = IF level = 0 THEN "main" ELSE "ret"
    /\ UNCHANGED <<tarjanVars, graphVars, rejectVars, outputVars, driverVars, col>>

\* Mutant: the total is not cleared.
ResetCountBad(total) == total

\* totalCount after the statement that follows the while loop.
ResetCount(total) == 0

\* readgg_inc returns NULL: the total is printed and cleared, the next file opened.
EndOfFile ==
    /\ pc = "main"
    /\ nfiles < files
    /\ totalCount' = ResetCount(totalCount)
    /\ nInFile' = 0
    /\ nfiles' = nfiles + 1
    /\ pc' = IF nfiles + 1 = files THEN "exit" ELSE "main"
    /\ UNCHANGED <<tarjanVars, graphVars, rejectVars, col, level, frames, ret,
                   handed, counted, emitted, dswitch, lswitch, maxn, ngraphs, files, before, nread>>

Next == ReadGraph \/ ScanEnter \/ TryThisOne \/ ScanNext \/ ScanReturn \/ EndOfFile

Spec == Init /\ [][Next]_vars

SpecSeq == InitSeq /\ [][Next]_vars

(***************************************************************************)
(* Reference notions the properties are stated with: reachability,         *)
(* strongly connected components, leaves, automorphisms and orbits, each   *)
(* by its definition.                                                      *)
(***************************************************************************)
RECURSIVE ReachFrom(_, _)
ReachFrom(gg, S) ==
    LET T == S \cup UNION {gg[u] : u \in S}
    IN  IF T = S THEN S ELSE ReachFrom(gg, T)

\* The vertices reachable from v, v included.
Reach(gg, v) == ReachFrom(gg, {v})

\* The strongly connected component of v.
Component(gg, v) == {u \in Reach(gg, v) : v \in Reach(gg, u)}

\* No edge leaves the set S.
NoEdgeOut(gg, S) == \A u \in S : gg[u] \subseteq S

\* The extended digraph of the statement: vertex nn added, an edge v -> nn
\* for every v coloured 1.
Extended(gg, c, nn) ==
    [v \in 0 .. nn |-> IF v = nn THEN {} ELSE IF c[v] = 1 THEN gg[v] \cup {nn} ELSE gg[v]]

Colourings(nn) == [V(nn) -> {0, 1}]

\* The leaf components: those no edge leaves.
LeafComponents(gg, nn) ==
    {L \in {Component(gg, v) : v \in V(nn)} : NoEdgeOut(gg, L)}

\* The admissible colourings: a colour-1 vertex in every leaf component.
AdmissibleColourings(gg, nn) ==
    LET leaves == LeafComponents(gg, nn)
    IN  {c \in Colourings(nn) : \A L \in leaves : \E u \in L : c[u] = 1}

Aut(gg, nn) == {p \in Perms(nn) : IsAutomorphism(gg, nn, p)}

\* The colouring c moved by the permutation p.
Image(c, p, nn) == [v \in V(nn) |-> c[p[v]]]

\* The orbit of c under the group aut.
OrbitUnder(aut, nn, c) == {Image(c, p, nn) : p \in aut}

\* a < b in the lexicographic order, vertex 0 first.
LexLess(a, b, nn) ==
    \E i \in V(nn) : a[i] < b[i] /\ \A j \in V(nn) : j < i => a[j] = b[j]

\* The search of the digraph read last is over.
SearchDone == pc = "main" /\ nInFile > 0

\* tarjan and the set-up of colourdigraph have just run.
AfterTarjan == pc = "scan" /\ level = 0

\* trythisone has just returned to the frame that called it.
JustTried == pc = "ret" /\ level = n - 1
JustAccepted == JustTried /\ ret = n - 1
JustRejected == JustTried /\ ret # n - 1

\* The component number of vertex v.
SccOf(v) == CHOOSE i \in 0 .. (currentSCC - 1) : v \in sccinfos[i].sccVertices

\* C1: a colouring handed to filter_and_output is counted exactly when, in the
\* extended digraph, the new vertex n is reachable from every vertex; and then
\* {n} is a component of its own without outgoing edge, and the only leaf
\* component of the extended digraph.
C1_FilterCountsSingleSink ==
    JustAccepted =>
      LET c == Colouring(col, n)
          x == Extended(g, c, n)
      IN  /\ c \in handed
          /\ totalCount - before = Cardinality(counted)
          /\ (c \in counted) <=> (\A v \in V(n) : n \in Reach(x, v))
          /\ (c \in counted) =>
                /\ Component(x, n) = {n}
                /\ x[n] = {}
                /\ \A v \in 0 .. n : NoEdgeOut(x, Component(x, v)) => Component(x, v) = {n}

C1_Witness ==
    /\ JustAccepted
    /\ n = 3
    /\ currentSCC = 2
    /\ Colouring(col, n) \in counted
    /\ handed \ counted # {}

\* C2: when the search of a digraph is over, the number of colourings counted
\* is the number of orbits of admissible colourings under the automorphism
\* group of the digraph: no two counted colourings lie in one orbit, every
\* admissible colouring has exactly one counted colouring in its orbit; and of
\* (1,0) and (0,1) on two vertices without edges exactly one reached the filter.
C2_CountIsOrbitCount ==
    SearchDone =>
      LET adm == AdmissibleColourings(g, n)
          aut == Aut(g, n)
      IN  /\ totalCount - before = Cardinality({OrbitUnder(aut, n, c) : c \in adm})
          /\ Cardinality(counted) = totalCount - before
          /\ \A c \in counted : OrbitUnder(aut, n, c) \cap counted = {c}
          /\ \A c \in adm : Cardinality(OrbitUnder(aut, n, c) \cap counted) = 1
          /\ (n = 2 /\ g[0] = {} /\ g[1] = {}) =>
               Cardinality(handed \cap {[v \in V(2) |-> IF v = 0 THEN 1 ELSE 0],
                                        [v \in V(2) |-> IF v = 0 THEN 0 ELSE 1]}) = 1

C2_Witness ==
    /\ SearchDone
    /\ n = 4
    /\ Cardinality(Aut(g, n)) > groupsize
    /\ groupsize > 1
    /\ Cardinality(counted) > 1

\* C3: after tarjan the sets sccVertices of the components 0..currentSCC-1 are
\* non-empty, pairwise disjoint, cover 0..n-1, have sccSize elements, and each
\* is a maximal set of mutually reachable vertices.
C3_SccPartition ==
    AfterTarjan =>
      LET S(i) == sccinfos[i].sccVertices
          I == 0 .. (currentSCC - 1)
      IN  /\ \A i \in I : S(i) # {} /\ sccinfos[i].sccSize = Cardinality(S(i))
          /\ \A i, j \in I : i # j => S(i) \cap S(j) = {}
          /\ UNION {S(i) : i \in I} = V(n)
          /\ \A i \in I : \A v \in S(i) : S(i) = Component(g, v)

C3_Witness ==
    /\ AfterTarjan
    /\ n = 4
    /\ currentSCC = 2
    /\ sccinfos[0].sccSize = 3
    /\ sccinfos[1].sccSize = 1

\* C4: after tarjan a component is marked leaf exactly when no edge goes from
\* one of its vertices to a vertex outside it, the first component closed included.
C4_LeafFlags ==
    AfterTarjan =>
      \A i \in 0 .. (currentSCC - 1) :
        sccinfos[i].isLeaf <=> NoEdgeOut(g, sccinfos[i].sccVertices)

\* The 3-cycle 0 -> 1 -> 2 -> 0 feeding the sink 3.
C4_Witness ==
    /\ AfterTarjan
    /\ n = 4
    /\ g = [v \in V(4) |-> IF v = 0 THEN {1, 3} ELSE IF v = 1 THEN {2} ELSE IF v = 2 THEN {0} ELSE {}]
    /\ currentSCC = 2
    /\ sccinfos[0].isLeaf /\ sccinfos[0].sccVertices = {3}
    /\ ~sccinfos[1].isLeaf

\* C10: components are closed in reverse topological order: an edge between
\* two components goes from the higher to the lower component number, and no
\* edge leaves component 0.
C10_ReverseTopological ==
    AfterTarjan =>
      /\ \A u \in V(n) : \A w \in g[u] : SccOf(u) # SccOf(w) => SccOf(w) < SccOf(u)
      /\ NoEdgeOut(g, sccinfos[0].sccVertices)

C10_Witness ==
    /\ AfterTarjan
    /\ n = 3
    /\ currentSCC = 3
    /\ \E u \in V(n) : \E w \in g[u] : SccOf(w) + 2 = SccOf(u)

\* c obeys the ceilings prev[] puts on the loop of scan.
PrevOK(pv, c, nn) == \A i \in V(nn) : pv[i] >= 0 => c[i] <= c[pv[i]]

\* Every element of the group is tested, and none rejects c.
FullTest(grp, c, nn) == \A p \in grp : ismax(p, c, nn).ret

\* C5 as stated: the counter is zero whenever a digraph is read, and when the
\* search of a digraph is over it is the number of colourings accepted for
\* that digraph alone.
C5_ResetPerDigraph ==
    /\ nread > 0 => before = 0
    /\ SearchDone => totalCount = Cardinality(counted)

\* C5 amended: the counter is cleared when an input file is exhausted and at no
\* other point; it runs on over the digraphs of one file, so that when the
\* search of a digraph is over it is the count of that digraph added to the
\* counts of the digraphs read before it from the same file.
C5_ResetPerFile ==
    /\ nInFile = 0 => totalCount = 0
    /\ nInFile = 1 => before = 0
    /\ SearchDone => totalCount = before + Cardinality(counted)
    /\ (SearchDone /\ nInFile = 2) => before > 0

C5_Witness ==
    /\ SearchDone
    /\ nread = 2
    /\ nfiles = 1
    /\ nInFile = 1
    /\ before = 0
    /\ totalCount = 3

\* C6: with -d, the digraph written for an accepted colouring has the edges of
\* the digraph as read, loops included, and the edges v -> n for the vertices
\* coloured 1, vertex n has no outgoing edge, and g is the digraph as read
\* whenever a colouring is extended.
C6_ExtensionOfInput ==
    /\ n > 0 => g = gread
    /\ ~dswitch => emitted = {}
    /\ (JustAccepted /\ dswitch) =>
         LET c == Colouring(col, n)
         IN  /\ (c \in counted) <=> (\E e \in emitted : e.col = c)
             /\ \A e \in emitted : e.col = c =>
                  /\ e.gnew = Extended(gread, c, n)
                  /\ e.gnew[n] = {}
                  /\ \A v \in V(n) : e.gnew[v] \ {n} = gread[v]

C6_Witness ==
    /\ JustAccepted
    /\ dswitch
    /\ n = 3
    /\ \E e \in emitted : e.col = Colouring(col, n) /\ e.gnew[0] = {0, 1, 3}
    /\ Cardinality(emitted) = 2

\* What the digraph alone determines: its components with their leaf flags,
\* and the number of orbits of its admissible colourings.
ComponentsOf(gg, nn) ==
    {[sccVertices |-> Component(gg, v), isLeaf |-> NoEdgeOut(gg, Component(gg, v)),
      sccSize |-> Cardinality(Component(gg, v))] : v \in V(nn)}

OrbitCountOf(gg, nn) ==
    LET aut == Aut(gg, nn)
    IN  Cardinality({OrbitUnder(aut, nn, c) : c \in AdmissibleColourings(gg, nn)})

\* C7: the components, the leaf flags and the number of counted colourings of a
\* digraph are determined by the digraph alone, whatever was read before it
\* and whatever vertex_index, lastreject, fail_level, col, vinfos and sccinfos
\* still hold from it.
C7_IndependentOfHistory ==
    /\ AfterTarjan =>
         /\ {sccinfos[i] : i \in 0 .. (currentSCC - 1)} = ComponentsOf(gread, n)
         /\ currentSCC = Cardinality(ComponentsOf(gread, n))
    /\ SearchDone => totalCount - before = OrbitCountOf(gread, n)

\* A 2-vertex digraph read after a 3-vertex digraph whose search rejected a colouring.
C7_Witness ==
    /\ SearchDone
    /\ nread = 2
    /\ n = 2
    /\ vertex_index = 5
    /\ vinfos[2].index # 0
    /\ \E i \in Idx : lastreject[i] # 0
    /\ fail_level > 0
    /\ col[2] = 1

\* C8: when trythisone rejects a colouring and returns fail_level-1, the value
\* is in 0..n-1, and every colouring still to come that agrees with the
\* rejected one on the vertices 0..fail_level-1 is not the lexicographically
\* greatest of its orbit; no frame ever receives a value below 0.
C8_BackjumpSound ==
    /\ pc = "ret" => ret \in 0 .. (n - 1)
    /\ JustRejected =>
         LET aut == Aut(g, n)
             c0 == Colouring(col, n)
         IN  /\ ret = fail_level - 1
             /\ \A c \in Colourings(n) :
                  ((\A i \in V(n) : i < fail_level => c[i] = c0[i]) /\ ~LexLess(c, c0, n))
                    => \E d \in OrbitUnder(aut, n, c) : LexLess(c, d, n)

\* A jump over the loop of level 2: the colouring (1,0,1,1) is never tried.
C8_Witness ==
    /\ JustRejected
    /\ n = 4
    /\ fail_level = 2
    /\ ret = 1
    /\ col[2] = 1
    /\ col[3] = 0

\* C9: the decision of trythisone is the decision of the test of every group
\* element, and when the search is over the colourings handed to
\* filter_and_output are those a search testing every element hands over.
C9_ShortCircuitSame ==
    /\ JustTried => ((ret = n - 1) <=> FullTest(group, Colouring(col, n), n))
    /\ SearchDone => handed = {c \in Colourings(n) : PrevOK(prev, c, n) /\ FullTest(group, c, n)}

\* An acceptance by the branch for a group of order 2 after a rejection.
C9_Witness ==
    /\ JustAccepted
    /\ groupsize = 2
    /\ lastrejok
====
